---------------------------- MODULE Spec2Model ----------------------------
(***************************************************************************)
(* Model of the scoring middleware (API/API.py) and of the Streamlit       *)
(* prediction page (Projet bancaire/client_prediction.py).                 *)
(*                                                                         *)
(* Values.  The code computes with Python floats (IEEE doubles).  Here a  *)
(* number is the record Num(k) of an integer k: an amount is a whole number *)
(* of currency units, a value rounded to three decimals is its number of   *)
(* thousandths (0.5 is Num(500)), a percentile rounded to one decimal is    *)
(* its number of tenths (50.0 is Num(500)).  An unrounded double is held by *)
(* the operations that made it: Frac(n, d) is the double n / d of two whole *)
(* numbers, Div(x, k) the double x / k and Mul(x, k) the double x * k of    *)
(* such a quotient x.  NaN is what pandas reads from an empty CSV cell;     *)
(* Null is Python's None.                                                  *)
(***************************************************************************)
EXTENDS Integers, Sequences, FiniteSets, Bags, TLC

Num(k)     == [v |-> k]
Frac(n, d) == [n |-> n, d |-> d]                       \* n / d, d > 0
Div(x, k)  == [n |-> x.n, d |-> x.d, div |-> k]        \* x / k, x = Frac(n, d)
Mul(x, k)  == [n |-> x.n, d |-> x.d, mul |-> k]        \* x * k, x = Frac(n, d)
Str(text)  == [str |-> text]      \* a Python or JSON string
NaN        == [nan |-> TRUE]      \* float('nan'): every comparison is False
Null       == [none |-> TRUE]     \* None / JSON null

IsNum(x) == DOMAIN x = {"v"}

(***************************************************************************)
(* Bounds of the model.                                                    *)
(***************************************************************************)
MaxAmt == 7              \* amounts range up to MaxAmt * 10000
MaxNeg == 1              \* and down to -MaxNeg * 10000

Amounts  == {Num(k * 10000) : k \in (0 - MaxNeg)..MaxAmt}
AmtCells == Amounts \cup {NaN}

(***************************************************************************)
(* Float helpers.                                                          *)
(***************************************************************************)
\* The doubles of the model are quotients of whole numbers below 2^27, so a
\* double has 53 significant bits and no overflow or underflow occurs.  The
\* 53-bit mantissa M of n / d is never written out: what rounding needs is its
\* residue by a small modulus and the sign of its error, and both come from
\* n * 2^e modulo a multiple of d.
Sign(k) == IF k > 0 THEN 1 ELSE IF k < 0 THEN 0 - 1 ELSE 0

RECURSIVE Pow2(_)
Pow2(e) == IF e = 0 THEN 1 ELSE 2 * Pow2(e - 1)

RECURSIVE Pow10(_)
Pow10(e) == IF e = 0 THEN 1 ELSE 10 * Pow10(e - 1)

\* floor(log2(k)) for k >= 1
RECURSIVE Log2(_)
Log2(k) == IF k < 2 THEN 0 ELSE 1 + Log2(k \div 2)

\* the binary exponent L of n / d, n > 0: 2^L <= n / d < 2^(L + 1)
RECURSIVE Exponent(_, _)
Exponent(n, d) ==
    IF n >= 2 * d THEN Exponent(n, 2 * d) + 1
    ELSE IF n < d THEN Exponent(2 * n, d) - 1
    ELSE 0

\* (n * 2^e) % m
RECURSIVE ModShift(_, _, _)
ModShift(n, e, m) == IF e = 0 THEN n % m ELSE (2 * ModShift(n, e - 1, m)) % m

\* The division n / d, n > 0, rounded to nearest, ties to even: with e = 52 -
\* Exponent(n, d) the mantissa is M = round(n * 2^e / d).  From w = (n * 2^e)
\* % (k * d), k even: w % d is the remainder of the division and w \div d its
\* floor modulo k.
\*   mod: M % k;
\*   err: d * M - n * 2^e, whose sign is that of the double minus n / d.
MantissaOf(w, d, k) ==
    LET up == \/ 2 * (w % d) > d
              \/ 2 * (w % d) = d /\ (w \div d) % 2 = 1
    IN  [mod |-> ((w \div d) + (IF up THEN 1 ELSE 0)) % k,
         err |-> IF up THEN d - (w % d) ELSE 0 - (w % d)]

Mantissa(n, d, k) == MantissaOf(ModShift(n, 52 - Exponent(n, d), k * d), d, k)

\* The double (n / d) / k, k >= 1: its mantissa is N = round(M * 2^s / k), s
\* the shift that brings M / k back to 53 bits.  The sign of the double minus
\* n / (d * k) is that of d * (k * N - M * 2^s) + 2^s * err.
QuotientShift(n, d, k) ==
    \* M * 2^s0 >= k * 2^52, that is n * 2^s0 >= k * d * 2^L, s0 = Log2(k)
    IF IF Exponent(n, d) >= 0
       THEN n * Pow2(Log2(k)) >= k * d * Pow2(Exponent(n, d))
       ELSE n * Pow2(Log2(k) - Exponent(n, d)) >= k * d
    THEN Log2(k) ELSE Log2(k) + 1

\* s the shift, m the mantissa M of n / d as [mod, err], mod being M % (2 * k)
QuotientSideOf(s, m, d, k) ==
    LET low == (Pow2(s) * m.mod) % (2 * k)
        up  == 2 * (low % k) > k \/ (2 * (low % k) = k /\ low >= k)
    IN  Sign(d * (IF up THEN k - (low % k) ELSE 0 - (low % k)) + Pow2(s) * m.err)

QuotientSide(n, d, k) ==
    QuotientSideOf(QuotientShift(n, d, k), Mantissa(n, d, 2 * k), d, k)

\* The double (n / d) * k, k >= 1: its mantissa is N = round(k * M / 2^s).
\* The sign of the double minus k * n / d is that of
\* d * (2^s * N - k * M) + k * err.
ProductShift(n, d, k) ==
    \* k * M < 2^(53 + s0), that is k * n < d * 2^(1 + s0 + L), s0 = Log2(k)
    IF IF 1 + Log2(k) + Exponent(n, d) >= 0
       THEN k * n < d * Pow2(1 + Log2(k) + Exponent(n, d))
       ELSE k * n * Pow2(0 - (1 + Log2(k) + Exponent(n, d))) < d
    THEN Log2(k) ELSE Log2(k) + 1

\* p the power 2^s of the shift, m the mantissa M of n / d as [mod, err], mod
\* being M % (2 * p)
ProductSideOf(p, m, d, k) ==
    LET low == (k * m.mod) % p
        up  == p > 1 /\ (2 * low > p \/ (2 * low = p /\ ((k * m.mod) \div p) % 2 = 1))
    IN  Sign(d * (IF up THEN p - low ELSE 0 - low) + k * m.err)

ProductSide(n, d, k) ==
    ProductSideOf(Pow2(ProductShift(n, d, k)),
                  Mantissa(n, d, 2 * Pow2(ProductShift(n, d, k))), d, k)

\* the sign of the double x minus the number its operations would give in
\* exact arithmetic, the sign of x being set aside (rounding is symmetric)
FloatSideOf(x, n) ==
    IF "div" \in DOMAIN x THEN QuotientSide(n, x.d, x.div)
    ELSE IF "mul" \in DOMAIN x THEN ProductSide(n, x.d, x.mul)
    ELSE Sign(Mantissa(n, x.d, 2).err)

FloatSide(x) ==
    IF x.n = 0 THEN 0
    ELSE IF x.n < 0 THEN 0 - FloatSideOf(x, 0 - x.n)
    ELSE FloatSideOf(x, x.n)

\* the exact number behind a double, as a fraction
ExactNum(x) == IF "mul" \in DOMAIN x THEN x.mul * x.n ELSE x.n
ExactDen(x) == IF "div" \in DOMAIN x THEN x.div * x.d ELSE x.d

\* round(x, ndigits), in units of 10^-ndigits; round(nan, ndigits) is nan.
\* Python rounds the double itself, correctly, an exact tie going to the even
\* neighbour.  The double lies within two units of its last bit of the exact
\* number, nearer than any decimal tie that the exact number is not, so off a
\* tie it rounds as the exact number does; on a tie the side of the tie the
\* double lies on decides, and the double that is the tie goes to the even
\* neighbour.
round(x, ndigits) ==
    IF x = NaN THEN NaN
    ELSE LET num == Pow10(ndigits) * ExactNum(x)
             den == ExactDen(x)
             q   == num \div den
             r   == num % den
         IN  Num(IF 2 * r < den THEN q
                 ELSE IF 2 * r > den THEN q + 1
                 \* a tie: up when the double is above it, or is the tie
                 \* itself and q is odd
                 ELSE IF 2 * FloatSide(x) + (q % 2) > 0 THEN q + 1
                 ELSE q)

\* row.get(col, default)
RowGet(row, col, default) == IF col \in DOMAIN row THEN row[col] ELSE default

\* float(v or 0): 0 and None give 0.0; NaN is truthy and stays NaN
FloatOrZero(v) == IF v = Null THEN Num(0) ELSE v

\* a > k and a <= k for a float a and an integer k; False when a is NaN
Gt(a, k)  == a # NaN /\ a.v > k
Leq(a, k) == a # NaN /\ a.v <= k
Geq(a, k) == a # NaN /\ a.v >= k

(***************************************************************************)
(* API.py: scoring.                                                        *)
(***************************************************************************)
RatioCap == 5            \* the 5.0 of simple_risk_score
Neutral  == 500          \* the 0.5 returned when income <= 0

\* The score with round() replaced by truncation.
simple_risk_score_floor(row) ==
    LET credit == FloatOrZero(RowGet(row, "AMT_CREDIT", Num(0)))
        income == FloatOrZero(RowGet(row, "AMT_INCOME_TOTAL", Num(0)))
    IN  IF Leq(income, 0) THEN Num(Neutral)
        ELSE IF income = NaN \/ credit = NaN THEN NaN
        ELSE IF credit.v > RatioCap * income.v THEN Num(1000)
        ELSE Num((1000 * credit.v) \div (RatioCap * income.v))

simple_risk_score(row) ==
    LET credit == FloatOrZero(RowGet(row, "AMT_CREDIT", Num(0)))
        income == FloatOrZero(RowGet(row, "AMT_INCOME_TOTAL", Num(0)))
        \* min(credit / income, 5.0): min keeps its first argument unless
        \* the second is smaller, so a NaN quotient stays NaN
        ratio  == IF income = NaN \/ credit = NaN THEN NaN
                  ELSE IF RatioCap * income.v < credit.v THEN Frac(RatioCap, 1)
                  ELSE Frac(credit.v, income.v)
        \* min(ratio / 5.0, 1.0)
        fifth  == IF ratio = NaN THEN NaN ELSE Div(ratio, RatioCap)
        capped == IF fifth = NaN THEN NaN
                  ELSE IF ExactDen(fifth) < ExactNum(fifth) THEN Frac(1, 1)
                  ELSE fifth
    IN  IF Leq(income, 0) THEN Num(Neutral)
        ELSE round(capped, 3)

\* a pandas Series: its cells in order
Series(cells) == [cells |-> cells]

\* series < value, elementwise; a comparison with NaN on either side is False
Below(cells, value) ==
    {i \in 1..Len(cells) : cells[i] # NaN /\ value # NaN /\ cells[i].v < value.v}

\* a cell of text: pd.read_csv makes the column it sits in a column of objects
Text == [text |-> "abc"]
IsText(x) == DOMAIN x = {"text"}

\* series < value raises TypeError on a column holding text, unless the value
\* is NaN: pandas answers a comparison with a missing scalar by False for every
\* cell, without comparing
Comparable(cells, value) ==
    value = NaN \/ \A i \in 1..Len(cells) : ~ IsText(cells[i])

\* The percentile counting the entries above the value.
compute_percentile_above(series, value) ==
    IF series = Null THEN Null
    ELSE IF Len(series.cells) = 0 THEN Null
    ELSE IF ~ Comparable(series.cells, value) THEN Null
    ELSE round(Mul(Frac(Cardinality(
                {i \in 1..Len(series.cells) :
                    /\ series.cells[i] # NaN
                    /\ value # NaN
                    /\ series.cells[i].v > value.v}),
             Len(series.cells)), 100), 1)

\* The percentile counting the entries equal to the value as below it.
compute_percentile_inclusive(series, value) ==
    IF series = Null THEN Null
    ELSE IF Len(series.cells) = 0 THEN Null
    ELSE IF ~ Comparable(series.cells, value) THEN Null
    ELSE round(Mul(Frac(Cardinality(
                {i \in 1..Len(series.cells) :
                    /\ series.cells[i] # NaN
                    /\ value # NaN
                    /\ series.cells[i].v <= value.v}),
             Len(series.cells)), 100), 1)

\* round((series < value).mean() * 100, 1), in tenths; None for no series, an
\* empty one, and when the comparison raises
compute_percentile(series, value) ==
    IF series = Null THEN Null
    ELSE IF Len(series.cells) = 0 THEN Null
    ELSE IF ~ Comparable(series.cells, value) THEN Null
    ELSE round(Mul(Frac(Cardinality(Below(series.cells, value)),
                        Len(series.cells)), 100), 1)

\* df.get(col): the column as a series, None when the table has no such column
Column(df, col) ==
    IF col \in df.cols
    THEN Series([i \in 1..Len(df.rows) |-> df.rows[i][col]])
    ELSE Null

DecisionThreshold == 500     \* 0.5
HighThreshold     == 700     \* 0.7
ModerateThreshold == 400     \* 0.4

\* The ratio field with the cap of simple_risk_score applied to it.
ratio_credit_income_capped(credit, income) ==
    IF Gt(income, 0)
    THEN IF credit = NaN THEN NaN
         ELSE IF RatioCap * income.v < credit.v THEN Num(1000 * RatioCap)
         ELSE round(Frac(credit.v, income.v), 3)
    ELSE Null

\* ratio = round(credit / income, 3) if income > 0 else None
ratio_credit_income(credit, income) ==
    IF Gt(income, 0)
    THEN IF credit = NaN THEN NaN
         ELSE round(Frac(credit.v, income.v), 3)
    ELSE Null

\* risk_level = "eleve" if score >= 0.7 else "modere" if score >= 0.4 else "faible"
service_tier(score) ==
    IF Geq(score, HighThreshold) THEN "eleve"
    ELSE IF Geq(score, ModerateThreshold) THEN "modere" ELSE "faible"

\* int(v), and str(v) when int() raises: on NaN, None or text
IntOrStr(v) ==
    IF IsNum(v) THEN v
    ELSE IF v = NaN THEN Str("nan")
    ELSE IF v = Null THEN Str("None")
    ELSE IF IsText(v) THEN Str(v.text)
    ELSE v

format_prediction(row, score, df) ==
    LET decision   == IF Geq(score, DecisionThreshold)
                      THEN "defaut" ELSE "remboursement_normal"
        client_id  == IntOrStr(RowGet(row, "SK_ID_CURR", Str("inconnu")))
        credit     == FloatOrZero(RowGet(row, "AMT_CREDIT", Num(0)))
        income     == FloatOrZero(RowGet(row, "AMT_INCOME_TOTAL", Num(0)))
        ratio      == ratio_credit_income(credit, income)
        pct_credit == compute_percentile(Column(df, "AMT_CREDIT"), credit)
        pct_income == compute_percentile(Column(df, "AMT_INCOME_TOTAL"), income)
        tier       == service_tier(score)
        explanation ==
            << IF ratio # Null THEN "Ratio credit/revenu = {ratio}"
                               ELSE "Ratio non calculable",
               IF pct_credit # Null THEN "Credit percentile ~ {pct_credit}%"
                                    ELSE "Percentile credit indisponible",
               IF pct_income # Null THEN "Revenu percentile ~ {pct_income}%"
                                    ELSE "Percentile revenu indisponible" >>
    IN  [client_id           |-> client_id,
         probability_default |-> score,
         prediction          |-> decision,
         risk_level          |-> tier,
         ratio_credit_income |-> ratio,
         credit_percentile   |-> pct_credit,
         income_percentile   |-> pct_income,
         explanation         |-> explanation]

(***************************************************************************)
(* client_prediction.py: tiering and the local fallback.                   *)
(***************************************************************************)
\* x >= t/1000 for a float x held as Num (thousandths) or by its operations;
\* False for NaN.  The thresholds 0.7 and 0.4 are the doubles nearest to 7/10
\* and 2/5; a score that is exactly 7/10 or 2/5 comes from the ratio 3.5 or
\* 2.0, which divided by 5.0 gives that same double, and any other score is
\* further from the threshold than a double is from its exact number.
FloatGeq(x, t) ==
    IF x = NaN THEN FALSE
    ELSE IF IsNum(x) THEN x.v >= t
    ELSE 1000 * ExactNum(x) >= t * ExactDen(x)

risk_level(score) ==
    IF FloatGeq(score, HighThreshold) THEN "Eleve"
    ELSE IF FloatGeq(score, ModerateThreshold) THEN "Modere" ELSE "Faible"

LocalCap == 5                \* the 5.0 of compute_local_risk

compute_local_risk(row) ==
    LET income == FloatOrZero(RowGet(row, "AMT_INCOME_TOTAL", Num(0)))
        credit == FloatOrZero(RowGet(row, "AMT_CREDIT", Num(0)))
        \* ratio = credit / income if income > 0 else 0.5
        ratio  == IF Gt(income, 0)
                  THEN IF credit = NaN THEN NaN ELSE Frac(credit.v, income.v)
                  ELSE Frac(1, 2)
        fifth  == IF ratio = NaN THEN NaN ELSE Div(ratio, LocalCap)
        \* min(max(x, 0), 1): max and min keep a NaN first argument
        score  == IF fifth = NaN THEN NaN
                  ELSE IF ExactNum(fifth) < 0 THEN Frac(0, 1)
                  ELSE IF ExactDen(fifth) < ExactNum(fifth) THEN Frac(1, 1)
                  ELSE fifth
    IN  [risk_score     |-> round(score, 3),
         risk_level     |-> risk_level(score),
         recommendation |-> "Score calcule localement sur le ratio credit/revenu.",
         source         |-> "local"]

(***************************************************************************)
(* API.py: files, the dataset loader and its lru_cache.                    *)
(***************************************************************************)
DefaultPath == "application_train.csv"   \* beside the API's directory
OtherPath   == "other.csv"
Paths       == {DefaultPath, OtherPath}

AllCols == {"SK_ID_CURR", "AMT_CREDIT", "AMT_INCOME_TOTAL"}

ScenarioRow1 ==
    [SK_ID_CURR |-> Num(1), AMT_CREDIT |-> Num(10000), AMT_INCOME_TOTAL |-> Num(20000)]
ScenarioRow2 ==
    [SK_ID_CURR |-> Num(2), AMT_CREDIT |-> Num(50000), AMT_INCOME_TOTAL |-> Num(10000)]

Restrict(r, cols) == [c \in cols |-> r[c]]

\* What a path can hold: no file, a file of zero bytes, or a CSV table
\* [cols, rows], a row being a function from the columns to cells.
Missing    == [file |-> "missing"]
ZeroBytes  == [file |-> "zero bytes"]
HeaderOnly == [cols |-> AllCols, rows |-> <<>>]
Scenario   == [cols |-> AllCols, rows |-> <<ScenarioRow1, ScenarioRow2>>]
NoAmounts  == [cols |-> {"SK_ID_CURR"},
               rows |-> <<Restrict(ScenarioRow1, {"SK_ID_CURR"})>>]
NoId       == [cols |-> {"AMT_CREDIT", "AMT_INCOME_TOTAL"},
               rows |-> <<Restrict(ScenarioRow1, {"AMT_CREDIT", "AMT_INCOME_TOTAL"})>>]
FileStates == {Missing, ZeroBytes, HeaderOnly, Scenario, NoAmounts, NoId}

EmptyFrame == [cols |-> {}, rows |-> <<>>]       \* pd.DataFrame()

\* df.empty: an axis of length 0
IsEmpty(df) == df.rows = <<>> \/ df.cols = {}

\* A call returns a value or raises: Ok(v) or Raised(str(exc)).
Ok(v)       == [ok |-> TRUE, value |-> v]
Raised(msg) == [ok |-> FALSE, exc |-> msg]

\* os.path.exists(path)
os_path_exists(path, files) == files[path] # Missing

\* pd.read_csv(path): FileNotFoundError on an absent file, EmptyDataError on
\* a file of zero bytes
read_csv(path, files) ==
    IF files[path] = Missing THEN Raised("No such file or directory")
    ELSE IF files[path] = ZeroBytes THEN Raised("No columns to parse from file")
    ELSE Ok(files[path])

\* The loader without its os.path.exists test: pd.read_csv on an absent file.
load_dataset_unguarded(path, exists, files) == read_csv(path, files)

\* load_dataset(path), exists being what os.path.exists(path) answered: the
\* file is only read, at the time of the call to pd.read_csv, when it was
\* there at the test
load_dataset(path, exists, files) ==
    IF ~ exists THEN Ok(EmptyFrame) ELSE read_csv(path, files)

lru_maxsize == 4

\* the cache of get_dataset: entries [path, df], least recently used first
Cached(cache, path) == \E i \in 1..Len(cache) : cache[i].path = path
EntryOf(cache, path) == CHOOSE e \in {cache[i] : i \in 1..Len(cache)} : e.path = path
Without(cache, path) == SelectSeq(cache, LAMBDA e : e.path # path)

\* A hit that leaves the recency order alone (first in, first out).
lru_hit_unmoved(cache, path) == cache

\* lru_cache, a hit: the entry becomes the most recently used
lru_hit(cache, path) == Append(Without(cache, path), EntryOf(cache, path))

\* lru_cache, after the wrapped function returned on a miss: the result is
\* stored, in the place of the least recently used entry when the cache is
\* full; nothing is stored when another call stored the key meanwhile
lru_store(cache, path, df) ==
    IF Cached(cache, path) THEN cache
    ELSE Append(IF Len(cache) >= lru_maxsize THEN Tail(cache) ELSE cache,
                [path |-> path, df |-> df])

(***************************************************************************)
(* API.py: the routes.  A request's query arguments are the record         *)
(* [client_id, path], each NoArg or Arg(text).                             *)
(***************************************************************************)
\* int(text) for the texts of the model: Null stands for ValueError
IntOf(text) ==
    IF text = "1" THEN Num(1)
    ELSE IF text = "2" THEN Num(2)
    ELSE IF text = "3" THEN Num(3)
    ELSE IF text = "4" THEN Num(4)
    ELSE IF text = "9" THEN Num(9)
    ELSE Null

NoArg     == [absent |-> TRUE]
Arg(text) == [raw |-> text]

\* request.args.get("client_id", type=int): None when the argument is absent
\* or int() rejects it
ParseInt(arg) == IF arg = NoArg THEN Null ELSE IntOf(arg.raw)

\* request.args.get("path", <default>)
PathOf(arg) == IF arg = NoArg THEN DefaultPath ELSE arg.raw

Json(status, body) ==
    [status |-> status, mimetype |-> "application/json", body |-> body]
Html(body) ==
    [status |-> 200, mimetype |-> "text/html", body |-> body]
Error(text) == [error |-> [text |-> text]]

\* The wrapper letting the exception through.
api_error_handler_reraise(out) == out

\* api_error_handler: what the wrapped function returns, or the 500 made of
\* the exception it raised
api_error_handler(out) ==
    IF out.ok THEN out ELSE Ok(Json(500, Error(out.exc)))

build_simple_plot(df) ==
    IF IsEmpty(df) \/ ~ ({"AMT_CREDIT", "AMT_INCOME_TOTAL"} \subseteq df.cols)
    THEN [title |-> "Dataset vide ou colonnes manquantes", points |-> 1]
    ELSE [title |-> "Montant de crédit vs revenu", points |-> Len(df.rows)]

\* The rest of a handler once get_dataset has returned load, or raised it:
\* [out, scored], what the handler returns or raises and whether it computed
\* a score.
Run(out, scored) == [out |-> out, scored |-> scored]

get_dataviz(args, load) ==
    IF ~ load.ok THEN Run(load, FALSE)
    ELSE Run(Ok(Html(build_simple_plot(load.value))), FALSE)

\* The handler without its check of client_id.
predict_default_unchecked(args, load) ==
    LET client_id == ParseInt(args.client_id)
        df        == load.value
        matches   == SelectSeq(df.rows, LAMBDA r : r["SK_ID_CURR"] = client_id)
    IN  IF ~ load.ok THEN Run(load, FALSE)
        ELSE IF IsEmpty(df)
        THEN Run(Ok(Json(400, Error("Dataset introuvable ou vide"))), FALSE)
        ELSE IF "SK_ID_CURR" \notin df.cols
        THEN Run(Raised("'SK_ID_CURR'"), FALSE)
        ELSE IF matches = <<>>
        THEN Run(Ok(Json(404, [error |-> [text |-> "Client {client_id} introuvable",
                                          client_id |-> client_id]])), FALSE)
        ELSE Run(Ok(Json(200, format_prediction(matches[1],
                        simple_risk_score(matches[1]), df))), TRUE)

predict_default(args, load) ==
    LET client_id == ParseInt(args.client_id)
        df        == load.value
        \* df[df["SK_ID_CURR"] == client_id]
        matches   == SelectSeq(df.rows, LAMBDA r : r["SK_ID_CURR"] = client_id)
    IN  IF ~ load.ok THEN Run(load, FALSE)
        ELSE IF IsEmpty(df)
        THEN Run(Ok(Json(400, Error("Dataset introuvable ou vide"))), FALSE)
        ELSE IF client_id = Null
        THEN Run(Ok(Json(400, Error("Paramètre client_id requis"))), FALSE)
        ELSE IF "SK_ID_CURR" \notin df.cols
        THEN Run(Raised("'SK_ID_CURR'"), FALSE)               \* KeyError
        ELSE IF matches = <<>>
        THEN Run(Ok(Json(404, [error |-> [text |-> "Client {client_id} introuvable",
                                          client_id |-> client_id]])), FALSE)
        ELSE Run(Ok(Json(200, format_prediction(matches[1],
                        simple_risk_score(matches[1]), df))), TRUE)

\* the handler of a cached route
Handler(route, args, load) ==
    IF route = "/get_dataviz" THEN get_dataviz(args, load)
    ELSE predict_default(args, load)

\* The response cache (flask-caching SimpleCache): entries [key, rv,
\* expires], at most one per key; an entry answers while expires > now.
dataviz_timeout == 600
predict_timeout == 300
cache_timeout(route) ==
    IF route = "/get_dataviz" THEN dataviz_timeout ELSE predict_timeout

\* The cache key without the query string.
Key_route_only(route, args) == [route |-> route, args |-> NoArg]

Key(route, args) == [route |-> route, args |-> args]
Live(entries, key, t) == {e \in entries : e.key = key /\ e.expires > t}
\* The cache storing successes only.
CacheSet_success_only(entries, key, rv, expires) ==
    IF rv.value.status = 200
    THEN {e \in entries : e.key # key}
            \cup {[key |-> key, rv |-> rv, expires |-> expires]}
    ELSE entries

CacheSet(entries, key, rv, expires) ==
    {e \in entries : e.key # key} \cup {[key |-> key, rv |-> rv, expires |-> expires]}

(***************************************************************************)
(* client_prediction.py: the call to the scoring API.                      *)
(*                                                                         *)
(* What requests.get can do: raise a RequestException (no connection, a    *)
(* timeout), or return a response [status, body].  A body is empty, text   *)
(* that is no JSON, a JSON value that is no object, or a JSON object (a    *)
(* function from its keys to values; a string value is Str(..)).           *)
(***************************************************************************)
EmptyBody    == [content |-> "empty"]
NotJsonBody  == [content |-> "not json"]
JsonArray    == [content |-> "json array"]
JsonObject(o) == [content |-> "json object", object |-> o]

ApiObjects ==
    {[probability_default |-> p, explanation |-> Str("Ratio credit/revenu = 0.5")] :
        p \in {Num(100), Num(700), NaN, Null, Str("abc")}}
    \cup {[explanation |-> Str("Ratio credit/revenu = 0.5")],
          [probability_default |-> Num(500)],
          [error |-> Str("Client 9 introuvable")],
          [error |-> Str("")],
          [detail |-> Str("Not Found")]}

Bodies == {EmptyBody, NotJsonBody, JsonArray} \cup {JsonObject(o) : o \in ApiObjects}

ConnectionError == [raises |-> "ConnectionError"]
Timeout         == [raises |-> "Timeout"]
Response(status, body) == [status |-> status, body |-> body]

NetOutcomes ==
    {ConnectionError, Timeout}
    \cup {Response(st, b) : st \in {200, 400, 404, 500}, b \in Bodies}

\* dict.get(key, default)
DictGet(o, key, default) == IF key \in DOMAIN o THEN o[key] ELSE default

\* response.json(): the parsed value, or JSONDecodeError, which requests
\* (2.27 and later) raises as a RequestException
ResponseJson(body) ==
    IF body.content = "json object" THEN Ok(body.object)
    ELSE IF body.content = "json array" THEN Ok(JsonArray)
    ELSE Raised("JSONDecodeError")

\* float(v) of a parsed JSON value
ToFloat(v) ==
    IF v = Null THEN Raised("TypeError")
    ELSE IF DOMAIN v = {"str"} THEN Raised("ValueError")
    ELSE Ok(v)

\* v or default: None, "" and 0 are falsy
OrElse(v, default) ==
    IF v = Null \/ v = Str("") \/ v = Num(0) THEN default ELSE v

ApiUnavailable(exc) == [text |-> "API indisponible: {exc}", exc |-> exc]
ApiStatus(status)   == [text |-> "API status {status_code}", status |-> status]

\* fetch_prediction_from_api(client_id, row) when requests.get does net:
\* Ok of the pair [result, warning] it returns, or Raised of the exception
\* that leaves it.  Only RequestException is caught.
fetch_prediction_from_api(client_id, r, net) ==
    LET fallback(msg) == Ok([result |-> compute_local_risk(r), warning |-> msg])
    IN  IF "raises" \in DOMAIN net THEN fallback(ApiUnavailable(net.raises))
        ELSE LET parsed == ResponseJson(net.body)
             IN  IF net.status = 200
                 THEN \* data = response.json()
                      IF ~ parsed.ok THEN fallback(ApiUnavailable(parsed.exc))
                      \* data.get on a value that is no dict
                      ELSE IF parsed.value = JsonArray THEN Raised("AttributeError")
                      ELSE LET number == ToFloat(DictGet(parsed.value,
                                                  "probability_default", Num(0)))
                           IN  IF ~ number.ok THEN number
                               ELSE Ok([result |->
                                          [risk_score |-> number.value,
                                           risk_level |-> risk_level(number.value),
                                           recommendation |->
                                              DictGet(parsed.value, "explanation",
                                                  Str("Recommandation issue de l'API.")),
                                           source |-> "api"],
                                        warning |-> Null])
                 \* payload = response.json() if response.content else {}
                 ELSE IF net.body = EmptyBody THEN fallback(ApiStatus(net.status))
                 ELSE IF ~ parsed.ok THEN fallback(ApiUnavailable(parsed.exc))
                 ELSE IF parsed.value = JsonArray THEN Raised("AttributeError")
                 ELSE fallback(OrElse(DictGet(parsed.value, "error", Null),
                                      ApiStatus(net.status)))

(***************************************************************************)
(* State.                                                                  *)
(*   row, pred, local: one client row, the prediction the service builds   *)
(*     for it (lines 204-206 of predict_default) and the result of the     *)
(*     page's local fallback for the same row.                             *)
(*   pct: one call of compute_percentile: [series, value, result].         *)
(*   disk: what each path holds.                                           *)
(*   dsCache: the lru_cache of get_dataset.                                *)
(*   respCache: the response cache of the two cached routes.               *)
(*   now: the clock, in seconds.                                           *)
(*   inflight: the requests being handled, a bag of [route, args, pc,      *)
(*     load]: the development server of app.run gives every request its    *)
(*     thread.  pc is the call the thread makes next on a shared object    *)
(*     (the dataset cache, the disk, the response cache), load what        *)
(*     get_dataset has returned or raised so far.                          *)
(*   served: the last request answered and its answer: [route, args, rv,   *)
(*     hit, load, scored]; rv is Ok(response), or Raised(..) if the route  *)
(*     let an exception through; hit tells a replay from respCache; load   *)
(*     and scored describe the handler's run.                              *)
(*   nreq, nwrite: requests answered and files changed so far.             *)
(*   base_df: the page's dataset, None when its CSV does not exist.        *)
(*   page: one run of the page's script: [pc, input, row, net, out, sent,  *)
(*     msg, exc]: where it stands, the identifier typed, the client's row, *)
(*     what requests.get did, what fetch_prediction_from_api returned or   *)
(*     raised, the requests sent, the message shown, the exception that    *)
(*     ended the script.                                                   *)
(***************************************************************************)
VARIABLES row, pred, local, pct, disk, dsCache, respCache, now, inflight, served,
          nreq, nwrite, base_df, page

scoreVars == <<row, pred, local, pct>>
svcVars   == <<disk, dsCache, respCache, now, inflight, served, nreq, nwrite>>
pageVars  == <<base_df, page>>
vars      == <<row, pred, local, pct, disk, dsCache, respCache, now, inflight, served,
               nreq, nwrite, base_df, page>>

MaxRequests == 2         \* requests per behaviour
MaxWrites   == 1         \* file changes per behaviour

ClientIdArgs == {NoArg, Arg("abc"), Arg("1"), Arg("9")}
PathArgs     == {NoArg, Arg(OtherPath)}
QueryArgs    == [client_id : ClientIdArgs, path : PathArgs]

NoRun == [skipped |-> TRUE]

SvcIdle ==
    /\ disk = [p \in Paths |-> Missing]
    /\ dsCache = <<>>
    /\ respCache = {}
    /\ now = 0
    /\ inflight = EmptyBag
    /\ served = Null
    /\ nreq = 0
    /\ nwrite = 0

ScoreIdle ==
    /\ row = ScenarioRow1
    /\ pred = Null
    /\ local = Null
    /\ pct = Null

\* the page before an analysis
IdlePage ==
    [pc |-> "idle", input |-> "", row |-> Null, net |-> Null, out |-> Null,
     sent |-> 0, msg |-> Null, exc |-> Null]

PageIdle ==
    /\ base_df = Null
    /\ page = IdlePage

\* rows whose ratio or score lies halfway between two thousandths: 1/400,
\* 3/400 and 5/400, and a fifth of each
TieRows ==
    {[SK_ID_CURR |-> Num(3), AMT_CREDIT |-> Num(c), AMT_INCOME_TOTAL |-> Num(400)] :
        c \in {1, 3, 5}}

\* every row over the amounts, with either amount column possibly absent
ScoredRows ==
    {[SK_ID_CURR |-> Num(3), AMT_CREDIT |-> c, AMT_INCOME_TOTAL |-> i] :
        c \in AmtCells, i \in AmtCells}
    \cup TieRows
    \cup {[SK_ID_CURR |-> Num(3), AMT_CREDIT |-> c] : c \in AmtCells}
    \cup {[SK_ID_CURR |-> Num(3), AMT_INCOME_TOTAL |-> i] : i \in AmtCells}
    \cup {[SK_ID_CURR |-> Num(3)]}

\* the table a scored row sits in: the spec's two-row scenario and the row
TableOf(r) ==
    [cols |-> DOMAIN r,
     rows |-> <<Restrict(ScenarioRow1, DOMAIN r), Restrict(ScenarioRow2, DOMAIN r), r>>]

\* the cells the scoring functions read from the row
CreditOf(r) == FloatOrZero(RowGet(r, "AMT_CREDIT", Num(0)))
IncomeOf(r) == FloatOrZero(RowGet(r, "AMT_INCOME_TOTAL", Num(0)))

MaxSeries == 3           \* entries of a column

\* what a column can hold: amounts, empty cells, text
SeriesCells == {Num(10000), Num(30000), Num(50000), NaN, Text}

\* the columns df.get can give: None (no such column), the empty column, and
\* the columns of up to MaxSeries cells
AllSeries ==
    {Null} \cup {Series(cells) :
                    cells \in UNION {[1..n -> SeriesCells] : n \in 0..MaxSeries}}

(***************************************************************************)
(* Specification SpecScore: the scoring functions applied to every row.    *)
(***************************************************************************)
ScoreInit ==
    /\ row \in ScoredRows
    /\ pred = Null
    /\ local = Null
    /\ pct = Null
    /\ SvcIdle
    /\ PageIdle

\* predict_default, lines 204-206: score the row and format the prediction
ScoreRow ==
    /\ pred = Null
    /\ pred' = format_prediction(row, simple_risk_score(row), TableOf(row))
    /\ UNCHANGED <<row, local, pct>>
    /\ UNCHANGED svcVars
    /\ UNCHANGED pageVars

\* fetch_prediction_from_api, line 212: the local fallback on the same row
ScoreLocal ==
    /\ local = Null
    /\ local' = compute_local_risk(row)
    /\ UNCHANGED <<row, pred, pct>>
    /\ UNCHANGED svcVars
    /\ UNCHANGED pageVars

\* the next row
ScoreNextRow ==
    /\ pred # Null
    /\ local # Null
    /\ row' \in ScoredRows
    /\ pred' = Null
    /\ local' = Null
    /\ UNCHANGED pct
    /\ UNCHANGED svcVars
    /\ UNCHANGED pageVars

ScoreNext == ScoreRow \/ ScoreLocal \/ ScoreNextRow

SpecScore == ScoreInit /\ [][ScoreNext]_vars

(***************************************************************************)
(* Specification SpecPercentile: compute_percentile applied to every       *)
(* column and value.                                                       *)
(***************************************************************************)
\* the call has not returned yet
Pending == [pending |-> TRUE]

PercentileInit ==
    /\ \E series \in AllSeries : \E value \in AmtCells :
          pct = [series |-> series, value |-> value, result |-> Pending]
    /\ row = ScenarioRow1
    /\ pred = Null
    /\ local = Null
    /\ SvcIdle
    /\ PageIdle

\* format_prediction, lines 136-137: compute_percentile(df.get(col), value)
Percentile ==
    /\ pct.result = Pending
    /\ pct' = [pct EXCEPT !.result = compute_percentile(pct.series, pct.value)]
    /\ UNCHANGED <<row, pred, local>>
    /\ UNCHANGED svcVars
    /\ UNCHANGED pageVars

SpecPercentile == PercentileInit /\ [][Percentile]_vars

(***************************************************************************)
(* Specification Spec: the service on its default dataset path.  The       *)
(* server handles each request in a thread of its own (app.run, line 214): *)
(* a request goes through the steps of its handler one at a time, and      *)
(* other requests and file changes fall between them.  The clock stands    *)
(* still: no response stored in the response cache expires here.           *)
(***************************************************************************)
Init ==
    /\ disk \in {d \in [Paths -> FileStates] : d[OtherPath] = Missing}
    /\ dsCache = <<>>
    /\ respCache = {}
    /\ now = 0
    /\ inflight = EmptyBag
    /\ served = Null
    /\ nreq = 0
    /\ nwrite = 0
    /\ ScoreIdle
    /\ PageIdle

Served(route, args, rv, hit, load, scored) ==
    [route |-> route, args |-> args, rv |-> rv, hit |-> hit,
     load |-> load, scored |-> scored]

\* the threads of the requests being handled
Threads == BagToSet(inflight)
Busy    == BagCardinality(inflight)

InFlight(route, args, pc, load) ==
    [route |-> route, args |-> args, pc |-> pc, load |-> load]

\* thread r goes on as r2, or ends
Goes(r, r2) == inflight' = (inflight (-) SetToBag({r})) (+) SetToBag({r2})
Ends(r)     == inflight' = inflight (-) SetToBag({r})

\* /health emptying the response cache as it answers.
health_check_flushing ==
    /\ nreq + Busy < MaxRequests
    /\ nreq' = nreq + 1
    /\ served' = Served("/health", NoArg,
                        Ok(Json(200, [status |-> "healthy", timestamp |-> now])),
                        FALSE, NoRun, FALSE)
    /\ respCache' = {}
    /\ UNCHANGED <<disk, dsCache, now, inflight, nwrite>>
    /\ UNCHANGED scoreVars
    /\ UNCHANGED pageVars

\* GET /health: the handler touches nothing that is shared
health_check ==
    /\ nreq + Busy < MaxRequests
    /\ nreq' = nreq + 1
    /\ served' = Served("/health", NoArg,
                        Ok(Json(200, [status |-> "healthy", timestamp |-> now])),
                        FALSE, NoRun, FALSE)
    /\ UNCHANGED <<disk, dsCache, respCache, now, inflight, nwrite>>
    /\ UNCHANGED scoreVars
    /\ UNCHANGED pageVars

\* A request to a route under @cache.cached(timeout, query_string=True): the
\* wrapper looks the route and query up in the response cache; a live entry
\* is the answer, failing that the wrapped handler is called.
Request(route, args) ==
    LET live == Live(respCache, Key(route, args), now)
    IN  /\ nreq + Busy < MaxRequests
        /\ IF live # {}
           THEN /\ served' = Served(route, args, (CHOOSE e \in live : TRUE).rv,
                                    TRUE, NoRun, FALSE)
                /\ nreq' = nreq + 1
                /\ UNCHANGED inflight
           ELSE /\ inflight' =
                      inflight (+) SetToBag({InFlight(route, args, "get_dataset", NoRun)})
                /\ UNCHANGED <<served, nreq>>
        /\ UNCHANGED <<disk, dsCache, respCache, now, nwrite>>
        /\ UNCHANGED scoreVars
        /\ UNCHANGED pageVars

\* GET /get_dataviz arrives
GetDataviz ==
    Request("/get_dataviz", [client_id |-> NoArg, path |-> NoArg])

\* GET /predict_default?client_id=.. arrives
PredictDefault ==
    \E id \in ClientIdArgs :
        Request("/predict_default", [client_id |-> id, path |-> NoArg])

\* get_dataset(csv_path), the lookup of lru_cache: a hit returns the stored
\* table, a miss calls load_dataset
LookupDataset ==
    /\ \E r \in Threads :
          /\ r.pc = "get_dataset"
          /\ LET path == PathOf(r.args.path)
             IN  IF Cached(dsCache, path)
                 THEN /\ dsCache' = lru_hit(dsCache, path)
                      /\ Goes(r, [r EXCEPT !.pc = "respond",
                                           !.load = Ok(EntryOf(dsCache, path).df)])
                 ELSE /\ Goes(r, [r EXCEPT !.pc = "os.path.exists"])
                      /\ UNCHANGED dsCache
    /\ UNCHANGED <<disk, respCache, now, served, nreq, nwrite>>
    /\ UNCHANGED scoreVars
    /\ UNCHANGED pageVars

\* load_dataset, line 76: os.path.exists(path); an absent file gives
\* pd.DataFrame()
PathExists ==
    /\ \E r \in Threads :
          /\ r.pc = "os.path.exists"
          /\ LET path == PathOf(r.args.path)
                 loaded == load_dataset(path, FALSE, disk)
             IN  IF os_path_exists(path, disk)
                 THEN Goes(r, [r EXCEPT !.pc = "pd.read_csv"])
                 ELSE Goes(r, [r EXCEPT !.pc = IF loaded.ok THEN "store" ELSE "respond",
                                        !.load = loaded])
    /\ UNCHANGED <<disk, dsCache, respCache, now, served, nreq, nwrite>>
    /\ UNCHANGED scoreVars
    /\ UNCHANGED pageVars

\* load_dataset, line 78: pd.read_csv(path) reads what the file holds now; an
\* exception leaves get_dataset and the handler
ReadCsv ==
    /\ \E r \in Threads :
          /\ r.pc = "pd.read_csv"
          /\ LET loaded == load_dataset(PathOf(r.args.path), TRUE, disk)
             IN  Goes(r, [r EXCEPT !.pc = IF loaded.ok THEN "store" ELSE "respond",
                                   !.load = loaded])
    /\ UNCHANGED <<disk, dsCache, respCache, now, served, nreq, nwrite>>
    /\ UNCHANGED scoreVars
    /\ UNCHANGED pageVars

\* get_dataset, the return of load_dataset: lru_cache stores the table
StoreDataset ==
    /\ \E r \in Threads :
          /\ r.pc = "store"
          /\ dsCache' = lru_store(dsCache, PathOf(r.args.path), r.load.value)
          /\ Goes(r, [r EXCEPT !.pc = "respond"])
    /\ UNCHANGED <<disk, respCache, now, served, nreq, nwrite>>
    /\ UNCHANGED scoreVars
    /\ UNCHANGED pageVars

\* The rest of the handler under @api_error_handler, and the wrapper of
\* cache.cached storing what it returned before the response leaves.
Respond ==
    /\ \E r \in Threads :
          /\ r.pc = "respond"
          /\ LET run == Handler(r.route, r.args, r.load)
                 rv  == api_error_handler(run.out)
             IN  /\ respCache' =
                       IF rv.ok
                       THEN CacheSet(respCache, Key(r.route, r.args), rv,
                                     now + cache_timeout(r.route))
                       ELSE respCache
                 /\ served' = Served(r.route, r.args, rv, FALSE, r.load, run.scored)
          /\ Ends(r)
    /\ nreq' = nreq + 1
    /\ UNCHANGED <<disk, dsCache, now, nwrite>>
    /\ UNCHANGED scoreVars
    /\ UNCHANGED pageVars

\* the dataset file is created, replaced or deleted
WriteFile ==
    /\ nwrite < MaxWrites
    /\ nwrite' = nwrite + 1
    /\ \E f \in FileStates :
          /\ f # disk[DefaultPath]
          /\ disk' = [disk EXCEPT ![DefaultPath] = f]
    /\ UNCHANGED <<dsCache, respCache, now, inflight, served, nreq>>
    /\ UNCHANGED scoreVars
    /\ UNCHANGED pageVars

Next ==
    \/ health_check
    \/ GetDataviz
    \/ PredictDefault
    \/ LookupDataset
    \/ PathExists
    \/ ReadCsv
    \/ StoreDataset
    \/ Respond
    \/ WriteFile

Spec == Init /\ [][Next]_vars

(***************************************************************************)
(* Specification SpecCache: the two cached routes over the length of their *)
(* windows: requests with any query and the clock, the files staying as    *)
(* they are.                                                               *)
(***************************************************************************)
MaxWindowTicks == 2      \* clock steps per behaviour: 600 s, the longer window

CacheInit ==
    /\ \E f \in {Missing, ZeroBytes, Scenario} :
          disk = [p \in Paths |-> IF p = DefaultPath THEN f ELSE Missing]
    /\ dsCache = <<>>
    /\ respCache = {}
    /\ now = 0
    /\ inflight = EmptyBag
    /\ served = Null
    /\ nreq = 0
    /\ nwrite = 0
    /\ ScoreIdle
    /\ PageIdle

\* GET /get_dataviz with any query: the handler reads path only, and a
\* client_id in the query is a parameter it ignores
GetDatavizAnyQuery ==
    \E args \in [client_id : {NoArg, Arg("1")}, path : PathArgs] :
        Request("/get_dataviz", args)

\* GET /predict_default with any query
PredictDefaultAnyQuery ==
    \E args \in QueryArgs : Request("/predict_default", args)

\* time passes: the clock advances by the shorter of the two cache windows
WindowTick ==
    /\ now < MaxWindowTicks * predict_timeout
    /\ now' = now + predict_timeout
    /\ UNCHANGED <<disk, dsCache, respCache, inflight, served, nreq, nwrite>>
    /\ UNCHANGED scoreVars
    /\ UNCHANGED pageVars

CacheNext ==
    \/ GetDatavizAnyQuery
    \/ PredictDefaultAnyQuery
    \/ LookupDataset
    \/ PathExists
    \/ ReadCsv
    \/ StoreDataset
    \/ Respond
    \/ WindowTick

SpecCache == CacheInit /\ [][CacheNext]_vars

(***************************************************************************)
(* Specification SpecErrors: the responses stored for one query of each    *)
(* cached route over the length of their windows: overlapping requests,    *)
(* changes of the dataset file and the clock.                              *)
(***************************************************************************)
\* GET /predict_default?client_id=1 arrives
PredictDefaultClient1 ==
    Request("/predict_default", [client_id |-> Arg("1"), path |-> NoArg])

ErrorsNext ==
    \/ GetDataviz
    \/ PredictDefaultClient1
    \/ LookupDataset
    \/ PathExists
    \/ ReadCsv
    \/ StoreDataset
    \/ Respond
    \/ WindowTick
    \/ WriteFile

SpecErrors == Init /\ [][ErrorsNext]_vars

(***************************************************************************)
(* Specification SpecClient: the prediction page.  Each click on "Analyser *)
(* le risque" runs the script once; requests.get may do anything a network *)
(* call can do.                                                            *)
(***************************************************************************)
ClientRow(id, credit, income) ==
    [SK_ID_CURR |-> Num(id), AMT_CREDIT |-> credit, AMT_INCOME_TOTAL |-> income]

\* the page's application_train.csv
ClientDataset ==
    [cols |-> AllCols,
     rows |-> <<ScenarioRow1, ScenarioRow2,
                ClientRow(3, Num(10000), Num(0)),
                ClientRow(4, Num(34990), Num(10000))>>]

Inputs == {"", " ", "abc", "1", "2", "3", "4", "9"}

\* str.strip()
Strip(text) == IF text = " " THEN "" ELSE text

\* The lookup giving the first row of the dataset to an unknown identifier.
get_client_row_lenient(client_id_input, df) ==
    LET client_id_int == IntOf(client_id_input)
        matches == SelectSeq(df.rows, LAMBDA r : r["SK_ID_CURR"] = client_id_int)
    IN  IF client_id_int = Null
        THEN Ok([row |-> Null, err |-> Str("L'ID client doit etre numerique.")])
        ELSE IF df = Null THEN Raised("FileNotFoundError")
        ELSE IF matches = <<>> THEN Ok([row |-> df.rows[1], err |-> Null])
        ELSE Ok([row |-> matches[1], err |-> Null])

\* get_client_row(client_id_input, df): Ok of the pair [row, err], or Raised:
\* with df None the dataset is loaded again, and the missing file raises
get_client_row(client_id_input, df) ==
    LET client_id_int == IntOf(client_id_input)
        matches == SelectSeq(df.rows, LAMBDA r : r["SK_ID_CURR"] = client_id_int)
    IN  IF client_id_int = Null
        THEN Ok([row |-> Null, err |-> Str("L'ID client doit etre numerique.")])
        ELSE IF df = Null THEN Raised("FileNotFoundError")
        ELSE IF matches = <<>>
        THEN Ok([row |-> Null,
                 err |-> Str("Client introuvable dans application_train.csv (ou filtre trop restrictif).")])
        ELSE Ok([row |-> matches[1], err |-> Null])

ClientInit ==
    /\ base_df \in {Null, ClientDataset}
    /\ page = IdlePage
    /\ SvcIdle
    /\ ScoreIdle

\* lines 318-335: the click, up to the request to the API
Analyse ==
    /\ page.pc = "idle"
    /\ \E input \in Inputs :
          LET target_id == Strip(input)
              got == get_client_row(target_id, base_df)
          IN  page' =
                IF target_id = ""
                THEN [IdlePage EXCEPT !.pc = "rendered", !.input = input,
                        !.msg = Str("Veuillez saisir ou selectionner un ID client numerique.")]
                ELSE IF ~ got.ok
                THEN [IdlePage EXCEPT !.pc = "crashed", !.input = input,
                        !.exc = Str(got.exc)]
                ELSE IF got.value.err # Null
                THEN [IdlePage EXCEPT !.pc = "rendered", !.input = input,
                        !.msg = got.value.err]
                ELSE [IdlePage EXCEPT !.pc = "calling", !.input = input,
                        !.row = got.value.row, !.sent = 1]
    /\ UNCHANGED base_df
    /\ UNCHANGED svcVars
    /\ UNCHANGED scoreVars

\* st.progress(min(max(risk_score, 0), 1)): min and max keep a NaN first
\* argument, and st.progress rejects a value outside [0, 1]
ProgressRaises(risk_score) == risk_score = NaN

\* lines 191-212 and 337-398: requests.get returns or raises, the rest of
\* fetch_prediction_from_api runs and the page renders its result
ApiReturns ==
    /\ page.pc = "calling"
    /\ \E net \in NetOutcomes :
          LET out == fetch_prediction_from_api(page.row["SK_ID_CURR"], page.row, net)
              exc == IF ~ out.ok THEN Str(out.exc)
                     ELSE IF ProgressRaises(out.value.result.risk_score)
                     THEN Str("StreamlitAPIException")
                     ELSE Null
          IN  page' = [page EXCEPT
                         !.pc  = IF exc = Null THEN "rendered" ELSE "crashed",
                         !.net = net,
                         !.out = out,
                         !.msg = IF exc = Null THEN out.value.warning ELSE Null,
                         !.exc = exc]
    /\ UNCHANGED base_df
    /\ UNCHANGED svcVars
    /\ UNCHANGED scoreVars

\* the next click runs the script again
NextClick ==
    /\ page.pc \in {"rendered", "crashed"}
    /\ page' = IdlePage
    /\ UNCHANGED base_df
    /\ UNCHANGED svcVars
    /\ UNCHANGED scoreVars

ClientNext == Analyse \/ ApiReturns \/ NextClick

SpecClient == ClientInit /\ [][ClientNext]_vars

(***************************************************************************)
(* Specification SpecLoader: get_dataset called for more paths than its    *)
(* cache holds, while files change.  A call is made of the steps the code  *)
(* makes on shared objects, with no lock held from one to the next: the    *)
(* lookup of lru_cache, os.path.exists (line 76), pd.read_csv (line 78),   *)
(* the store of lru_cache; other calls and file changes fall between them. *)
(* Here inflight holds the calls in progress, [path, pc, load, file,       *)
(* found, readAgain]: the path asked, the step the call makes next, what   *)
(* load_dataset returned, what the file held when the call looked at it    *)
(* last, whether the lookup found the path in the cache and whether        *)
(* pd.read_csv read the file while the cache held a table read from it.    *)
(* served is the last call that returned or raised, those fields with      *)
(* [result, hit, read, before]: its outcome, whether it was answered from  *)
(* the cache, whether it looked at the disk, the cache before its last     *)
(* step; and, over all calls so far, [called, loaded, lastUse, uses,       *)
(* overlaps]: the paths asked, what each path's file held at the load that *)
(* was last stored, the rank of each path's last use (a hit or a store),   *)
(* the number of uses and the number of calls begun while another was in   *)
(* progress.                                                               *)
(***************************************************************************)
MaxCalls    == 6         \* calls of get_dataset per behaviour
MaxOverlaps == 1         \* of which begin while another is in progress

\* one path more than the cache holds
PathSeq ==
    <<DefaultPath, OtherPath, "third.csv", "fourth.csv", "fifth.csv">>
LoaderPaths == {PathSeq[i] : i \in 1..Len(PathSeq)}
LoaderFiles == {Missing, ZeroBytes, HeaderOnly, Scenario}

NoCall ==
    [path |-> "", file |-> Null, found |-> FALSE, readAgain |-> FALSE,
     result |-> Null, hit |-> FALSE, read |-> FALSE, before |-> <<>>,
     called |-> {},
     loaded  |-> [p \in LoaderPaths |-> Null],
     lastUse |-> [p \in LoaderPaths |-> 0],
     uses |-> 0, overlaps |-> 0]

LoaderInit ==
    /\ \E f \in LoaderFiles : disk = [p \in LoaderPaths |-> f]
    /\ dsCache = <<>>
    /\ respCache = {}
    /\ now = 0
    /\ inflight = EmptyBag
    /\ served = NoCall
    /\ nreq = 0
    /\ nwrite = 0
    /\ ScoreIdle
    /\ PageIdle

\* get_dataset(path) looking the path up and re-reading the file whether or
\* not the cache holds it.
GetDataset_reread ==
    /\ nreq + Busy < MaxCalls
    /\ Busy > 0 => served.overlaps < MaxOverlaps
    /\ \E path \in LoaderPaths :
          /\ \/ path \in served.called
             \/ /\ Cardinality(served.called) < Len(PathSeq)
                /\ path = PathSeq[Cardinality(served.called) + 1]
          /\ inflight' = inflight (+) SetToBag({
                 [path |-> path, pc |-> "os.path.exists", load |-> NoRun,
                  file |-> Null, found |-> Cached(dsCache, path),
                  readAgain |-> FALSE]})
          /\ served' = [served EXCEPT
                          !.called = @ \cup {path},
                          !.overlaps = IF Busy > 0 THEN @ + 1 ELSE @]
    /\ UNCHANGED <<disk, dsCache, respCache, now, nreq, nwrite>>
    /\ UNCHANGED scoreVars
    /\ UNCHANGED pageVars

\* get_dataset(path), as either route calls it, up to the lookup of lru_cache:
\* a hit returns the stored table and makes the entry the most recently used,
\* a miss calls load_dataset.  The paths being interchangeable, a call names
\* a path already asked or the next of PathSeq.
GetDataset ==
    /\ nreq + Busy < MaxCalls
    /\ Busy > 0 => served.overlaps < MaxOverlaps
    /\ \E path \in LoaderPaths :
          /\ \/ path \in served.called
             \/ /\ Cardinality(served.called) < Len(PathSeq)
                /\ path = PathSeq[Cardinality(served.called) + 1]
          /\ IF Cached(dsCache, path)
             THEN /\ dsCache' = lru_hit(dsCache, path)
                  /\ served' =
                       [served EXCEPT
                          !.path = path, !.file = disk[path],
                          !.found = TRUE, !.readAgain = FALSE,
                          !.result = Ok(EntryOf(dsCache, path).df),
                          !.hit = TRUE, !.read = FALSE, !.before = dsCache,
                          !.called = @ \cup {path},
                          !.lastUse = [@ EXCEPT ![path] = served.uses + 1],
                          !.uses = @ + 1,
                          !.overlaps = IF Busy > 0 THEN @ + 1 ELSE @]
                  /\ nreq' = nreq + 1
                  /\ UNCHANGED inflight
             ELSE /\ inflight' = inflight (+) SetToBag({
                         [path |-> path, pc |-> "os.path.exists", load |-> NoRun,
                          file |-> Null, found |-> FALSE,
                          readAgain |-> FALSE]})
                  /\ served' = [served EXCEPT
                          !.called = @ \cup {path},
                          !.overlaps = IF Busy > 0 THEN @ + 1 ELSE @]
                  /\ UNCHANGED <<dsCache, nreq>>
    /\ UNCHANGED <<disk, respCache, now, nwrite>>
    /\ UNCHANGED scoreVars
    /\ UNCHANGED pageVars

\* load_dataset, line 76, in a call of get_dataset: os.path.exists(path); an
\* absent file gives pd.DataFrame()
LoaderExists ==
    /\ \E r \in Threads :
          /\ r.pc = "os.path.exists"
          /\ IF os_path_exists(r.path, disk)
             THEN Goes(r, [r EXCEPT !.pc = "pd.read_csv"])
             ELSE Goes(r, [r EXCEPT !.pc = "store",
                                    !.load = load_dataset(r.path, FALSE, disk),
                                    !.file = disk[r.path]])
    /\ UNCHANGED <<disk, dsCache, respCache, now, served, nreq, nwrite>>
    /\ UNCHANGED scoreVars
    /\ UNCHANGED pageVars

\* load_dataset, line 78, in a call of get_dataset: pd.read_csv(path) reads
\* what the file holds now; an exception leaves load_dataset and get_dataset,
\* and lru_cache stores nothing
LoaderRead ==
    /\ \E r \in Threads :
          /\ r.pc = "pd.read_csv"
          /\ LET loaded == load_dataset(r.path, TRUE, disk)
             IN  IF loaded.ok
                 THEN /\ Goes(r, [r EXCEPT !.pc = "store",
                                           !.load = loaded,
                                           !.file = disk[r.path],
                                           !.readAgain = /\ Cached(dsCache, r.path)
                                                         /\ served.loaded[r.path] # Missing])
                      /\ UNCHANGED <<served, nreq>>
                 ELSE /\ Ends(r)
                      /\ served' =
                           [served EXCEPT
                              !.path = r.path, !.file = disk[r.path],
                              !.found = r.found,
                              !.readAgain = /\ Cached(dsCache, r.path)
                                            /\ served.loaded[r.path] # Missing,
                              !.result = loaded,
                              !.hit = FALSE, !.read = TRUE, !.before = dsCache]
                      /\ nreq' = nreq + 1
    /\ UNCHANGED <<disk, dsCache, respCache, now, nwrite>>
    /\ UNCHANGED scoreVars
    /\ UNCHANGED pageVars

\* get_dataset, the return of load_dataset: lru_cache stores the table, unless
\* another call stored the path meanwhile, and the call returns what it loaded
LoaderStore ==
    /\ \E r \in Threads :
          /\ r.pc = "store"
          /\ dsCache' = lru_store(dsCache, r.path, r.load.value)
          /\ Ends(r)
          /\ served' =
               [served EXCEPT
                  !.path = r.path, !.file = r.file,
                  !.found = r.found, !.readAgain = r.readAgain,
                  !.result = r.load,
                  !.hit = FALSE, !.read = TRUE, !.before = dsCache,
                  !.loaded  = IF Cached(dsCache, r.path) THEN @
                              ELSE [@ EXCEPT ![r.path] = r.file],
                  !.lastUse = IF Cached(dsCache, r.path) THEN @
                              ELSE [@ EXCEPT ![r.path] = served.uses + 1],
                  !.uses    = IF Cached(dsCache, r.path) THEN @ ELSE @ + 1]
    /\ nreq' = nreq + 1
    /\ UNCHANGED <<disk, respCache, now, nwrite>>
    /\ UNCHANGED scoreVars
    /\ UNCHANGED pageVars

\* the dataset file, the first path asked, is created, replaced or deleted
LoaderWrite ==
    /\ nwrite < MaxWrites
    /\ nwrite' = nwrite + 1
    /\ \E f \in LoaderFiles :
          /\ f # disk[DefaultPath]
          /\ disk' = [disk EXCEPT ![DefaultPath] = f]
    /\ UNCHANGED <<dsCache, respCache, now, inflight, served, nreq>>
    /\ UNCHANGED scoreVars
    /\ UNCHANGED pageVars

LoaderNext ==
    \/ GetDataset
    \/ LoaderExists
    \/ LoaderRead
    \/ LoaderStore
    \/ LoaderWrite

SpecLoader == LoaderInit /\ [][LoaderNext]_vars

(***************************************************************************)
(* Claims about the scoring functions, checked under SpecScore.            *)
(***************************************************************************)
Abs(k) == IF k < 0 THEN 0 - k ELSE k

\* p (thousandths) is a nearest thousandth of the fraction n/d, d > 0
NearestThousandth(p, n, d) == 2 * Abs(d * p - 1000 * n) <= d

\* C1: for every row scored, whatever numeric credit and income it holds
\* (zero and negative amounts included), probability_default is >= 0 and <= 1.
C1_ProbabilityInUnitInterval ==
    (pred # Null /\ IsNum(CreditOf(row)) /\ IsNum(IncomeOf(row)))
        => /\ IsNum(pred.probability_default)
           /\ pred.probability_default.v >= 0
           /\ pred.probability_default.v <= 1000

\* C2: for every row with income > 0 the score is min(min(credit/income, 5)/5, 1)
\* rounded to three decimals: 1.0 from credit >= 5 * income on, the nearest
\* thousandth of credit/(5 * income) below; 10000/20000 gives 0.1 and
\* 50000/10000 gives 1.0; a larger credit never gives a smaller score.
C2_ScoreFormula ==
    (pred # Null /\ Gt(IncomeOf(row), 0) /\ IsNum(CreditOf(row)))
        => LET c == CreditOf(row).v
               i == IncomeOf(row).v
               p == pred.probability_default
           IN  /\ IsNum(p)
               /\ c >= RatioCap * i => p.v = 1000
               /\ c <= RatioCap * i => NearestThousandth(p.v, c, RatioCap * i)
               /\ (c = 10000 /\ i = 20000) => p.v = 100
               /\ (c = 50000 /\ i = 10000) => p.v = 1000
               /\ \A c2 \in Amounts :
                     c2.v >= c =>
                        LET q == simple_risk_score(
                                   [SK_ID_CURR |-> Num(3), AMT_CREDIT |-> c2,
                                    AMT_INCOME_TOTAL |-> Num(i)])
                        IN  IsNum(q) /\ q.v >= p.v

C2_Witness ==
    /\ pred # Null
    /\ CreditOf(row) = Num(10000)
    /\ IncomeOf(row) = Num(20000)
    /\ pred.probability_default = Num(100)

\* the row's income is absent: no AMT_INCOME_TOTAL column, or an empty cell
IncomeAbsent(r) ==
    "AMT_INCOME_TOTAL" \notin DOMAIN r \/ r["AMT_INCOME_TOTAL"] = NaN

\* C3: for every row with income <= 0, or with income absent, the prediction
\* has probability_default exactly 0.5 and ratio_credit_income null.
C3_NeutralWithoutIncome ==
    (pred # Null /\ (Leq(IncomeOf(row), 0) \/ IncomeAbsent(row)))
        => /\ pred.probability_default = Num(500)
           /\ pred.ratio_credit_income = Null

ClientLabel(t) ==
    IF t = "eleve" THEN "Eleve" ELSE IF t = "modere" THEN "Modere" ELSE "Faible"

\* decision and tier of a probability p, as the claim states them; p is a
\* number of thousandths or NaN, of which no comparison holds
DecisionAndTierOf(p, decision, tier) ==
    /\ decision \in {"defaut", "remboursement_normal"}
    /\ decision = "defaut" <=> (p # NaN /\ p.v >= 500)
    /\ tier \in {"eleve", "modere", "faible"}
    /\ tier = "eleve" <=> (p # NaN /\ p.v >= 700)
    /\ tier = "modere" <=> (p # NaN /\ p.v >= 400 /\ p.v < 700)
    /\ tier = "faible" <=> (p # NaN /\ p.v < 400)

\* C5: in every prediction the decision is "defaut" iff probability >= 0.5 and
\* the tier is eleve iff probability >= 0.7, modere iff 0.4 <= probability <
\* 0.7, faible iff probability < 0.4; every probability of [0, 1] gets exactly
\* one tier; the client's risk_level gives the same tier to the same
\* probability.
C5_DecisionAndTier ==
    /\ pred # Null
          => /\ DecisionAndTierOf(pred.probability_default,
                                  pred.prediction, pred.risk_level)
             /\ risk_level(pred.probability_default) = ClientLabel(pred.risk_level)
    /\ \A k \in 0..1000 :
          /\ Cardinality({t \in {"eleve", "modere", "faible"} :
                            t = service_tier(Num(k))}) = 1
          /\ risk_level(Num(k)) = ClientLabel(service_tier(Num(k)))

\* C10: for every row, the risk_score of the client's local fallback equals
\* the probability_default the service computes for the same row, rows with
\* income <= 0 included.
C10_LocalEqualsService ==
    (pred # Null /\ local # Null)
        => local.risk_score = pred.probability_default

(***************************************************************************)
(* Claims about the handler of /predict_default and about the error        *)
(* wrapper, checked under Spec on the requests the handler ran for.        *)
(***************************************************************************)
\* the last request was to /predict_default and its handler ran
PredictRan ==
    /\ served # Null
    /\ served.route = "/predict_default"
    /\ ~ served.hit

\* what get_dataset was asked for is a missing file or an empty one (zero
\* bytes, or a header without rows)
EmptyOrMissing(load) ==
    IF load.ok THEN IsEmpty(load.value)
    ELSE load.exc = "No columns to parse from file"

NonEmpty(load) == load.ok /\ ~ IsEmpty(load.value)

HasClient(df, id) ==
    /\ "SK_ID_CURR" \in df.cols
    /\ \E i \in 1..Len(df.rows) : df.rows[i]["SK_ID_CURR"] = id

NotFound(id) ==
    Ok(Json(404, [error |-> [text |-> "Client {client_id} introuvable",
                             client_id |-> id]]))
Unavailable == Ok(Json(400, Error("Dataset introuvable ou vide")))
Required    == Ok(Json(400, Error("Paramètre client_id requis")))

\* C6: an integer client_id matching no row of a non-empty dataset always
\* gets the 404 not-found response; any client_id against an empty or
\* missing dataset always gets the 400 dataset-unavailable response; the 404
\* is never given for an empty or missing dataset, nor the 400
\* dataset-unavailable for a non-empty one.
C6_NotFoundVersusUnavailable ==
    PredictRan =>
        LET id == ParseInt(served.args.client_id)
        IN  /\ (NonEmpty(served.load) /\ id # Null
                    /\ ~ HasClient(served.load.value, id))
                  => served.rv = NotFound(id)
            /\ EmptyOrMissing(served.load) => served.rv = Unavailable
            /\ (served.rv.ok /\ served.rv.value.status = 404)
                  => ~ EmptyOrMissing(served.load)
            /\ served.rv = Unavailable => ~ NonEmpty(served.load)

PredictionFields ==
    {"client_id", "probability_default", "prediction", "risk_level",
     "ratio_credit_income", "credit_percentile", "income_percentile",
     "explanation"}

C8_ExceptionsBecome500 ==
    (served # Null /\ served.route \in {"/get_dataviz", "/predict_default"}) =>
        /\ served.rv.ok
        /\ served.rv.value.status \in {200, 400, 404, 500}
        /\ (~ served.hit /\ ~ served.load.ok)
              => served.rv = Ok(Json(500, Error(served.load.exc)))
        /\ (PredictRan /\ NonEmpty(served.load)
                /\ ParseInt(served.args.client_id) # Null
                /\ "SK_ID_CURR" \notin served.load.value.cols)
              => served.rv = Ok(Json(500, Error("'SK_ID_CURR'")))
        /\ (~ served.hit /\ served.rv.value.status = 500)
              => (~ served.load.ok \/ "SK_ID_CURR" \notin served.load.value.cols)

C8_Witness ==
    /\ served # Null
    /\ served.route = "/get_dataviz"
    /\ ~ served.hit
    /\ served.load = Raised("No columns to parse from file")
    /\ served.rv = Ok(Json(500, Error("No columns to parse from file")))

(***************************************************************************)
(* Claims about the page's call to the API, checked under SpecClient.      *)
(***************************************************************************)
\* requests.get was called and fetch_prediction_from_api has ended
Fetched == page.net # Null /\ page.out # Null

\* a 200 response whose body is no JSON object, or whose probability_default
\* is no number
MalformedBody(net) ==
    \/ net.body.content # "json object"
    \/ ~ ToFloat(DictGet(net.body.object, "probability_default", Num(0))).ok

\* the call failed: a transport error, a timeout, a status other than 200, a
\* malformed body
CallFailed(net) ==
    \/ "raises" \in DOMAIN net
    \/ net.status # 200
    \/ MalformedBody(net)

\* C9: when the call fails in any way, fetch_prediction_from_api returns the
\* locally computed assessment with source "local" and a non-empty warning;
\* it returns a result with source "api" and no warning only when the
\* service answered 200; in every returned pair the source is "local" iff a
\* warning is present.
C9_LocalIffWarning ==
    Fetched =>
        /\ CallFailed(page.net)
              => /\ page.out.ok
                 /\ page.out.value.result = compute_local_risk(page.row)
                 /\ page.out.value.result.source = "local"
                 /\ page.out.value.warning \notin {Null, Str("")}
        /\ (page.out.ok /\ page.out.value.result.source = "api")
              => /\ page.net.status = 200
                 /\ page.out.value.warning = Null
        /\ page.out.ok
              => (page.out.value.result.source = "local"
                     <=> page.out.value.warning # Null)

\* the script has ended for this click, its call to the API made
Finished == page.pc \in {"rendered", "crashed"} /\ page.net # Null

\* C11: whatever requests.get does (a connection error, a timeout, a status
\* other than 200 with or without a JSON body, a 200 whose body is not the
\* expected object or whose probability_default is missing, null or no
\* number), fetch_prediction_from_api returns a result and the page renders.
C11_FetchNeverRaises ==
    Fetched =>
        /\ page.out.ok
        /\ DOMAIN page.out.value = {"result", "warning"}
        /\ page.pc = "rendered"
        /\ page.exc = Null

\* the local computations fetch_prediction_from_api made: the one behind a
\* result of source "local"
LocalComputations(out) ==
    IF out.ok /\ out.value.result.source = "local" THEN 1 ELSE 0

\* C12: an analysis sends at most one request; after a failed request it
\* sends no other, computes the local assessment exactly once and finishes:
\* every analysis that reached the network ends with a result after one
\* attempt.
C12_OneAttemptThenResult ==
    /\ page.sent <= 1
    /\ Finished =>
          /\ page.sent = 1
          /\ page.out # Null
          /\ page.out.ok
          /\ page.out.value.result.source \in {"api", "local"}
          /\ CallFailed(page.net) => LocalComputations(page.out) = 1
          /\ ~ CallFailed(page.net) => LocalComputations(page.out) = 0


(***************************************************************************)
(* Claims about the dataset loader and the routes, checked under Spec.     *)
(***************************************************************************)
\* a request to one of the two cached routes is answered in this step
Answered ==
    /\ nreq' = nreq + 1
    /\ served'.route \in {"/get_dataviz", "/predict_default"}

\* what each route answers on an empty table
Placeholder ==
    Ok(Html([title |-> "Dataset vide ou colonnes manquantes", points |-> 1]))

NonFatal(route) ==
    IF route = "/predict_default" THEN Unavailable ELSE Placeholder

\* thread r takes a step of get_dataset and goes on as r2
Steps(r, r2, pc) ==
    /\ r \in Threads
    /\ r.pc = pc
    /\ r2 \in BagToSet(inflight')
    /\ r2.route = r.route
    /\ r2.args = r.args
    /\ r2.pc # pc
    /\ Goes(r, r2)

\* a thread of get_dataset's callers: a step of thread r to r2 at pc
StepsAt(pc) ==
    {rr \in Threads \X BagToSet(inflight') : Steps(rr[1], rr[2], pc)}

\* a load of a path that does not exist at the test of os.path.exists gives
\* the empty table without failing
MissingPathLoadsEmpty ==
    \A rr \in StepsAt("os.path.exists") :
        disk[PathOf(rr[1].args.path)] = Missing
            => /\ rr[2].load = Ok(EmptyFrame)
               /\ rr[2].pc = "store"

\* on the empty table each route answers with its non-fatal outcome
EmptyTableIsNonFatal ==
    (Answered /\ ~ served'.hit /\ served'.load = Ok(EmptyFrame))
        => served'.rv = NonFatal(served'.route)

\* C13 as stated: for a path that does not exist get_dataset returns an
\* empty table without failing, whether it finds the path in the dataset
\* cache or tests the file, and on that table /predict_default answers 400
\* dataset-unavailable, /get_dataviz the 200 placeholder plot, never a 500.
C13_MissingPathIsEmpty ==
    [][/\ \A rr \in StepsAt("get_dataset") :
             (disk[PathOf(rr[1].args.path)] = Missing /\ rr[2].pc = "respond")
                => rr[2].load = Ok(EmptyFrame)
       /\ MissingPathLoadsEmpty
       /\ EmptyTableIsNonFatal]_vars

\* C13 as amended: for a path that the dataset cache does not hold and that
\* does not exist when the loader tests it, get_dataset returns an empty
\* table without failing; for a path the dataset cache holds it returns the
\* cached table though the file no longer exists; on the empty table
\* /predict_default answers 400 dataset-unavailable, /get_dataviz the 200
\* placeholder plot, never a 500.
C13_MissingPathReadIsEmpty ==
    [][/\ \A rr \in StepsAt("get_dataset") :
             LET path == PathOf(rr[1].args.path)
             IN  /\ Cached(dsCache, path)
                       => /\ rr[2].pc = "respond"
                          /\ rr[2].load = Ok(EntryOf(dsCache, path).df)
                 /\ ~ Cached(dsCache, path)
                       => /\ rr[2].pc = "os.path.exists"
                          /\ rr[2].load = NoRun
       /\ MissingPathLoadsEmpty
       /\ EmptyTableIsNonFatal]_vars

C13_Witness ==
    /\ PredictRan
    /\ disk[PathOf(served.args.path)] = Missing
    /\ served.load = Ok(EmptyFrame)
    /\ served.rv = Unavailable

(***************************************************************************)
(* Claims about the dataset cache, checked under SpecLoader.               *)
(***************************************************************************)
\* the table a file gives when it is loaded
TableIn(file) == IF file = Missing THEN EmptyFrame ELSE file

PathsOf(cache) == {cache[i].path : i \in 1..Len(cache)}

\* a call of get_dataset has returned or raised; the cache held its path when
\* the call looked it up
Called == served.path # ""
FoundCached == Called /\ served.found

\* the table the cache holds for a path is the one read at the load that
\* stored it, and a call that finds its path in the cache returns that table
\* without looking at the file
CachedTableIsLoadedTable ==
    /\ \A p \in LoaderPaths :
          Cached(dsCache, p)
             => /\ served.loaded[p] # Null
                /\ EntryOf(dsCache, p).df = TableIn(served.loaded[p])
    /\ FoundCached
          => /\ served.hit
             /\ ~ served.read
             /\ served.result = Ok(TableIn(served.loaded[served.path]))
             /\ served.result = Ok(EntryOf(served.before, served.path).df)

\* C14 (as stated): once get_dataset has loaded a path, every later call for
\* that path returns the table read at that load, whatever became of the
\* file since (modified, deleted, created after having been missing), as
\* long as the path's entry stays in the cache; the file is read again only
\* after eviction: never while the cache holds the path.
C14_CachedTableIsFirstLoad ==
    /\ CachedTableIsLoadedTable
    /\ Called => ~ served.readAgain

\* C14 (amended): once get_dataset has loaded a path, every call for that
\* path that begins after the load stored its table returns the table read
\* at that load, whatever became of the file since, as long as the path's
\* entry stays in the cache; the file is read only by a call that did not
\* find the path in the cache when it began (never loaded, evicted, or being
\* loaded by a call still in progress).
C14_CachedTableIsFirstLoadForLaterCalls ==
    /\ CachedTableIsLoadedTable
    /\ (Called /\ served.read) => ~ served.found

\* a path loaded while its file was missing, asked again once the file exists
C14_Witness ==
    /\ FoundCached
    /\ served.hit
    /\ served.loaded[served.path] = Missing
    /\ served.file = Scenario
    /\ served.result = Ok(EmptyFrame)

\* the least recently used path of a cache: the one whose last use (a hit or
\* a store) is the oldest
LeastRecentlyUsed(cache, lastUse) ==
    CHOOSE p \in PathsOf(cache) : \A q \in PathsOf(cache) : lastUse[p] <= lastUse[q]

\* C15: the dataset cache never holds more than 4 paths, each at most once;
\* loading a path into a full cache evicts the least recently used one, a
\* hit counting as a use like a load; a call for a path in the cache does
\* not read the disk and evicts nothing.
C15_AtMostFourLeastRecentlyUsedOut ==
    /\ Len(dsCache) <= 4
    /\ Cardinality(PathsOf(dsCache)) = Len(dsCache)
    /\ FoundCached
          => /\ ~ served.read
             /\ PathsOf(dsCache) = PathsOf(served.before)
    /\ (Called /\ ~ FoundCached /\ served.result.ok)
          => /\ served.read
             /\ IF Cached(served.before, served.path)
                THEN dsCache = served.before
                ELSE IF Len(served.before) < 4
                THEN PathsOf(dsCache) = PathsOf(served.before) \cup {served.path}
                ELSE PathsOf(dsCache) =
                       (PathsOf(served.before)
                           \ {LeastRecentlyUsed(served.before, served.lastUse)})
                       \cup {served.path}
    /\ (Called /\ ~ served.result.ok) => dsCache = served.before

\* four paths loaded, the first one asked again, then a fifth: the second
\* path is the one evicted
C15_Witness ==
    /\ served.path = PathSeq[5]
    /\ served.read
    /\ Len(served.before) = 4
    /\ Cached(dsCache, PathSeq[1])
    /\ ~ Cached(dsCache, PathSeq[2])
    /\ Cached(dsCache, PathSeq[5])

(***************************************************************************)
(* Claims about the response cache, checked under SpecCache.               *)
(***************************************************************************)
\* the window of each cached route, in seconds
Window(route) == IF route = "/get_dataviz" THEN 600 ELSE 300

\* the responses stored for a route and query that can still be replayed at
\* time t: stored less than the route's window ago
Replayable(route, args, t) ==
    {e \in respCache : /\ e.key.route = route
                       /\ e.key.args = args
                       /\ t < e.expires}

\* a request for route and args arrives in this step and its handler starts
Starts(route, args) ==
    inflight' = inflight (+) SetToBag({InFlight(route, args, "get_dataset", NoRun)})

\* the queries of the two cached routes
CachedQueries == {"/get_dataviz", "/predict_default"} \X QueryArgs

\* the entries of the other routes and queries are the same before and after
OthersKept(route, args) ==
    {e \in respCache : e.key.route # route \/ e.key.args # args}
        = {e \in respCache' : e.key.route # route \/ e.key.args # args}

\* C16: a request repeating a query whose response was stored less than the
\* route's window ago (600 s for /get_dataviz, 300 s for /predict_default)
\* gets the stored response and the handler does not run; otherwise (another
\* route, another path, client_id or other parameter, or the window elapsed)
\* the handler runs, and its response is stored for the route and query, for
\* the route's window, the entries of the other queries being left as they
\* are.
C16_KeyedByRouteAndQuery ==
    [][/\ \A e \in respCache : e.expires <= now + Window(e.key.route)
       /\ \A q \in CachedQueries :
             /\ Cardinality(Replayable(q[1], q[2], now)) <= 1
             /\ Starts(q[1], q[2]) => Replayable(q[1], q[2], now) = {}
       /\ Answered =>
             LET route == served'.route
                 args  == served'.args
                 live  == Replayable(route, args, now)
             IN  /\ served'.hit
                       => /\ live # {}
                          /\ \A e \in live : served'.rv = e.rv
                          /\ served'.load = NoRun
                          /\ dsCache' = dsCache
                          /\ respCache' = respCache
                          /\ inflight' = inflight
                 /\ ~ served'.hit
                       => /\ served'.load # NoRun
                          /\ [key |-> [route |-> route, args |-> args],
                              rv |-> served'.rv,
                              expires |-> now + Window(route)] \in respCache'
                          /\ Cardinality({e \in respCache' :
                                 e.key.route = route /\ e.key.args = args}) = 1
                          /\ OthersKept(route, args)]_vars

\* 300 s after a first /get_dataviz the same query is replayed, though the
\* window of /predict_default has elapsed
C16_Witness ==
    /\ served # Null
    /\ served.route = "/get_dataviz"
    /\ served.hit
    /\ now = 300
    /\ nreq = 2
    /\ \E e \in respCache : e.key.route = "/get_dataviz" /\ e.expires = 600

(***************************************************************************)
(* Claims about compute_percentile, checked under SpecPercentile.          *)
(***************************************************************************)
\* compute_percentile has returned
Returned == pct # Null /\ pct.result # Pending

\* the column is absent or has no entry
AbsentOrEmpty(series) == series = Null \/ Len(series.cells) = 0

HoldsText(series) ==
    /\ series # Null
    /\ \E i \in 1..Len(series.cells) : IsText(series.cells[i])

\* the entries of the column that are numbers below v
StrictlyLess(series, v) ==
    {i \in 1..Len(series.cells) : /\ IsNum(series.cells[i])
                                  /\ IsNum(v)
                                  /\ series.cells[i].v < v.v}

\* p (tenths of a percent) is 100 times the fraction of the entries below v,
\* rounded to one decimal
IsPercentile(p, series, v) ==
    /\ IsNum(p)
    /\ NearestThousandth(p.v, Cardinality(StrictlyLess(series, v)),
                         Len(series.cells))

\* C17 as stated: compute_percentile(C, v) is 100 times the fraction of the
\* entries of C strictly less than v, rounded to one decimal (50.0 for 50000
\* against {10000, 50000}), and is null if and only if C is absent or empty.
C17_PercentileNullIffEmpty ==
    Returned =>
        /\ pct.result = Null <=> AbsentOrEmpty(pct.series)
        /\ ~ AbsentOrEmpty(pct.series)
              => IsPercentile(pct.result, pct.series, pct.value)
        /\ (pct.series = Series(<<Num(10000), Num(50000)>>) /\ pct.value = Num(50000))
              => pct.result = Num(500)

\* the comparison of the column with v raises: the column holds text, and v
\* is a number (pandas answers a comparison with NaN without comparing)
CannotCompare(series, v) == HoldsText(series) /\ v # NaN

\* C17 as amended: compute_percentile(C, v) is null if and only if C is
\* absent, empty, or holds an entry of text while v is a number (the
\* comparison then raises and the error is swallowed); otherwise it is 100
\* times the fraction of the entries of C strictly less than v, rounded to
\* one decimal, entries equal to v and empty cells not being counted as
\* below (50.0 for 50000 against {10000, 50000}; 0.0 when v is NaN).
C17_PercentileNullIffEmptyOrText ==
    Returned =>
        /\ pct.result = Null
              <=> (AbsentOrEmpty(pct.series) \/ CannotCompare(pct.series, pct.value))
        /\ ~ (AbsentOrEmpty(pct.series) \/ CannotCompare(pct.series, pct.value))
              => IsPercentile(pct.result, pct.series, pct.value)
        /\ (~ AbsentOrEmpty(pct.series) /\ pct.value = NaN)
              => pct.result = Num(0)
        /\ (pct.series = Series(<<Num(10000), Num(50000)>>) /\ pct.value = Num(50000))
              => pct.result = Num(500)

C17_Witness ==
    /\ Returned
    /\ pct.series = Series(<<Num(10000), Num(50000)>>)
    /\ pct.value = Num(50000)
    /\ pct.result = Num(500)

\* the percentile is a number of [0, 100] and no larger value gets a smaller one
MonotoneFrom(series, v, p) ==
    /\ IsNum(p)
    /\ p.v >= 0
    /\ p.v <= 1000
    /\ \A v2 \in Amounts :
          v2.v >= v.v
             => LET q == compute_percentile(series, v2)
                IN  IsNum(q) /\ q.v >= p.v

\* C18 as stated: for a non-empty column C, compute_percentile(C, v) lies in
\* [0, 100] and v1 <= v2 implies
\* compute_percentile(C, v1) <= compute_percentile(C, v2).
C18_PercentileMonotone ==
    (Returned /\ ~ AbsentOrEmpty(pct.series) /\ IsNum(pct.value))
        => MonotoneFrom(pct.series, pct.value, pct.result)

\* C18 as amended: for a non-empty column C holding no text,
\* compute_percentile(C, v) lies in [0, 100] and v1 <= v2 implies
\* compute_percentile(C, v1) <= compute_percentile(C, v2); for a column
\* holding text the result is null for every number v.
C18_PercentileMonotoneOnNumbers ==
    (Returned /\ ~ AbsentOrEmpty(pct.series) /\ IsNum(pct.value))
        => IF HoldsText(pct.series)
           THEN \A v2 \in Amounts : compute_percentile(pct.series, v2) = Null
           ELSE MonotoneFrom(pct.series, pct.value, pct.result)

C18_Witness ==
    /\ Returned
    /\ pct.series = Series(<<Num(10000), Num(50000), Num(30000)>>)
    /\ pct.value = Num(30000)
    /\ pct.result = Num(333)
    /\ compute_percentile(pct.series, Num(50000)) = Num(667)

(***************************************************************************)
(* Claims about /health and about the order of the checks of               *)
(* /predict_default, checked under Spec.                                   *)
(***************************************************************************)
\* C19: /health answers in every state of the service (dataset missing,
\* empty or loaded, caches empty or not, other requests being handled or
\* not) with status 200 and the fields status and timestamp, and answering
\* it uses and changes neither the dataset cache nor the response cache.
C19_HealthUnconditional ==
    /\ [](nreq + Busy < MaxRequests => ENABLED health_check)
    /\ [][(nreq' = nreq + 1 /\ served'.route = "/health")
            => /\ served'.rv.ok
               /\ served'.rv.value.status = 200
               /\ DOMAIN served'.rv.value.body = {"status", "timestamp"}
               /\ ~ served'.hit
               /\ served'.load = NoRun
               /\ dsCache' = dsCache
               /\ respCache' = respCache
               /\ inflight' = inflight
               /\ disk' = disk]_vars

\* /health answered while no dataset file exists and both caches hold entries
C19_Witness ==
    /\ served # Null
    /\ served.route = "/health"
    /\ served.rv.value.status = 200
    /\ disk[DefaultPath] = Missing
    /\ dsCache # <<>>
    /\ respCache # {}

\* C20: in /predict_default the dataset is checked before client_id: a
\* request without client_id on an empty or missing dataset gets the 400
\* dataset-unavailable error, never "client_id requis", and "client_id
\* requis" is only returned for a non-empty dataset.
C20_DatasetCheckFirst ==
    PredictRan =>
        /\ (ParseInt(served.args.client_id) = Null /\ EmptyOrMissing(served.load))
              => served.rv = Unavailable
        /\ served.rv = Required => NonEmpty(served.load)

(***************************************************************************)
(* Claims about the caching of error responses, checked under SpecErrors.  *)
(***************************************************************************)
IsError(rv) == rv.ok /\ rv.value.status \in {400, 404, 500}

\* the error responses stored for a route and query less than the route's
\* window before time t
StoredErrors(route, args, t) ==
    {e \in Replayable(route, args, t) : IsError(e.rv)}

\* an error answered by a handler is stored for the route's window
ErrorsAreStored ==
    (Answered /\ ~ served'.hit /\ IsError(served'.rv))
        => [key |-> [route |-> served'.route, args |-> served'.args],
            rv |-> served'.rv,
            expires |-> now + Window(served'.route)] \in respCache'

\* a request arriving while an error is stored for its query is answered
\* with it and its handler does not start
StoredErrorsAreReplayed ==
    /\ \A q \in CachedQueries :
          Starts(q[1], q[2]) => StoredErrors(q[1], q[2], now) = {}
    /\ (Answered /\ served'.hit)
          => LET live == Replayable(served'.route, served'.args, now)
             IN  /\ live # {}
                 /\ \A e \in live : served'.rv = e.rv
                 /\ served'.load = NoRun
                 /\ ~ served'.scored
                 /\ dsCache' = dsCache
                 /\ respCache' = respCache

\* error e is still the response stored for its query after the step
Kept(e) ==
    \E e2 \in respCache' :
        e2.key = e.key /\ e2.rv = e.rv /\ e2.expires >= e.expires

\* the errors stored less than their route's window ago
LiveErrors == {e \in respCache : IsError(e.rv) /\ now < e.expires}

\* C21 as stated: an error response (400, 404, 500) is stored like a
\* success: once a handler has answered a query with an error, the error
\* stays the stored response of the query until the route's window ends
\* (300 s for /predict_default, 600 s for /get_dataviz), and every repeat of
\* the query until then gets that same error without the handler running,
\* whatever the files hold by then.
C21_ErrorsAreReplayed ==
    [][/\ ErrorsAreStored
       /\ StoredErrorsAreReplayed
       /\ \A e \in LiveErrors : Kept(e)]_vars

\* C21 as amended: an error response is stored like a success, and a repeat
\* of the query within the route's window is answered with the stored
\* response without the handler running, whatever the files hold by then;
\* the stored response is that same error unless a request for the same
\* query, whose handler was already running when the error was stored, has
\* answered since: its response then takes the error's place.
C21_ErrorsAreReplayedUnlessOverwritten ==
    [][/\ ErrorsAreStored
       /\ StoredErrorsAreReplayed
       /\ \A e \in LiveErrors :
             ~ Kept(e)
                => /\ Answered
                   /\ ~ served'.hit
                   /\ [route |-> served'.route, args |-> served'.args] = e.key
                   /\ \E r \in Threads :
                         /\ r.pc = "respond"
                         /\ r.route = served'.route
                         /\ r.args = served'.args
                         /\ Ends(r)
                   /\ [key |-> e.key, rv |-> served'.rv,
                       expires |-> now + Window(served'.route)] \in respCache']_vars

\* the 500 of /get_dataviz on an empty file, replayed 300 s later though the
\* file now holds the dataset
C21_Witness ==
    /\ served # Null
    /\ served.route = "/get_dataviz"
    /\ served.hit
    /\ served.rv = Ok(Json(500, Error("No columns to parse from file")))
    /\ now = 300
    /\ disk[PathOf(served.args.path)] = Scenario

(***************************************************************************)
(* Claims about the results the page gets and about the order of its       *)
(* steps, checked under SpecClient.                                        *)
(***************************************************************************)
\* the tier of a reported score (thousandths) under the thresholds 0.4 and 0.7
TierOf(score) ==
    IF IsNum(score) /\ score.v >= 700 THEN "Eleve"
    ELSE IF IsNum(score) /\ score.v >= 400 THEN "Modere"
    ELSE IF IsNum(score) /\ score.v < 400 THEN "Faible"
    ELSE "none"

\* C22: in every result fetch_prediction_from_api returns, from the API or
\* computed locally, risk_level is the tier of the risk_score reported with
\* it: Eleve iff risk_score >= 0.7, Modere iff 0.4 <= risk_score < 0.7,
\* Faible iff risk_score < 0.4.
C22_LevelIsTierOfReportedScore ==
    (Fetched /\ page.out.ok)
        => page.out.value.result.risk_level
              = TierOf(page.out.value.result.risk_score)

\* the identifier typed is an integer held by a row of the local dataset
KnownLocally(input) ==
    /\ IntOf(Strip(input)) # Null
    /\ base_df # Null
    /\ \E i \in 1..Len(base_df.rows) :
          base_df.rows[i]["SK_ID_CURR"] = IntOf(Strip(input))

InlineMessages ==
    {Str("Veuillez saisir ou selectionner un ID client numerique."),
     Str("L'ID client doit etre numerique."),
     Str("Client introuvable dans application_train.csv (ou filtre trop restrictif).")}

\* C23: the API is called only once the identifier typed has been parsed as
\* an integer and its row found in the local dataset, and the row sent is
\* that row; an empty, non-numeric or locally unknown identifier ends the
\* analysis on a warning or an error shown in the page (the lookup's message,
\* or the FileNotFoundError of a missing local dataset), no request being
\* sent and no score, from the API or local, being computed.
C23_LookupBeforeRequest ==
    /\ (page.sent > 0 \/ page.net # Null \/ page.out # Null)
          => /\ KnownLocally(page.input)
             /\ page.row # Null
             /\ page.row["SK_ID_CURR"] = IntOf(Strip(page.input))
    /\ (page.pc # "idle" /\ ~ KnownLocally(page.input))
          => /\ page.sent = 0
             /\ page.net = Null
             /\ page.out = Null
             /\ page.pc \in {"rendered", "crashed"}
             /\ page.pc = "rendered" => page.msg \in InlineMessages
             /\ page.pc = "crashed"
                   => (base_df = Null /\ page.exc = Str("FileNotFoundError"))
             /\ (base_df # Null \/ IntOf(Strip(page.input)) = Null)
                   => page.pc = "rendered"

\* an integer that no row of the loaded dataset holds: the lookup's error is
\* shown and nothing is sent
C23_Witness ==
    /\ page.pc = "rendered"
    /\ page.input = "9"
    /\ base_df = ClientDataset
    /\ page.msg = Str("Client introuvable dans application_train.csv (ou filtre trop restrictif).")
    /\ page.sent = 0
    /\ page.out = Null

============================================================================
